---------------------------- MODULE Spec2Model ----------------------------
(***************************************************************************)
(* A model of supernote-sync.py: the one-way sync of a Supernote's file    *)
(* tree (served as HTML pages with an embedded JSON listing) into a local  *)
(* directory.  The model covers read_directory, the worker coroutine, the  *)
(* queue/semaphore coordination of supernote_to_local, and main.           *)
(*                                                                         *)
(* asyncio runs one coroutine at a time; a coroutine is only interleaved   *)
(* with the others where it awaits something that is not ready.  Every     *)
(* action below is the code between two such points.                       *)
(***************************************************************************)
EXTENDS Integers, Sequences, FiniteSets, TLC

\* ------------------------------------------------------------- bounds
\* Largest number of entries (files and directories) of the remote tree.
MaxEntries == 3
\* Largest number of lines of a listing page.
MaxLines == 2
\* Number of times the program is launched on the same output directory.
MaxRuns == 2
\* Largest number of hosts handed to discover_supernote.
MaxHosts == 3

\* ---------------------------------------------------- program constants
\* n = 5: the size of the worker pool and of the semaphore.
n == 5

Workers == 1..n

\* port = 8089, where discover_supernote looks for the device.
port == 8089

\* ------------------------------------------------------------- paths
\* A path component is a file name split as os.path.splitext splits it.
Comp(stem, ext) == [stem |-> stem, ext |-> ext]

NoteExt == ".note"
PdfExt == ".pdf"

FileComps == {Comp("x", NoteExt), Comp("x", PdfExt)}
MoreFileComps == FileComps \cup {Comp("y", ".txt")}
DirComps == {Comp("d", "")}

\* The process's working directory, and the <output-dir> arguments tried:
\* a relative and an absolute one.
Cwd == <<Comp("home", "")>>
OutputDirs == { [abs |-> FALSE, comps |-> <<Comp("out", "")>>],
                [abs |-> TRUE, comps |-> <<Comp("out", "")>>] }

\* os.pardir
Pardir == Comp("..", "")

\* output_dir + item["uri"]: the uri starts with a separator, so the string
\* concatenation appends the uri's components to those of output_dir.
StrConcat(dir, uri) == [abs |-> dir.abs, comps |-> dir.comps \o uri]

\* os.path.join(path, name) for a relative name.
PathJoin(path, c) == [abs |-> path.abs, comps |-> path.comps \o <<c>>]

\* os.path.normpath on the components of an absolute path: "x/.." collapses,
\* ".." at the root stays at the root.
RECURSIVE NormComps(_, _)
NormComps(done, rest) ==
    IF rest = <<>> THEN done
    ELSE IF Head(rest) = Pardir
         THEN NormComps(IF done = <<>> THEN <<>> ELSE SubSeq(done, 1, Len(done) - 1),
                        Tail(rest))
         ELSE NormComps(Append(done, Head(rest)), Tail(rest))

\* os.path.abspath: a relative path is taken from the working directory, and
\* the result is normalised.
Abspath(path) ==
    [abs |-> TRUE,
     comps |-> NormComps(<<>>, IF path.abs THEN path.comps ELSE Cwd \o path.comps)]

\* parent_dir = os.path.abspath(os.path.join(output_dir + item["uri"], os.pardir))
ParentDir(dir, item) == Abspath(PathJoin(StrConcat(dir, item.uri), Pardir))

\* filepath = os.path.join(parent_dir, item["name"])
\* (a variant that takes the whole path from the uri)
FilepathFromUri(dir, item) == Abspath(StrConcat(dir, item.uri))

Filepath(dir, item) == PathJoin(ParentDir(dir, item), item.name)

\* filepath.endswith(".note")
EndsWithNote(path) == path.comps[Len(path.comps)].ext = NoteExt

\* should_convert and filepath.endswith(".note")
\* (a variant without the test of the extension)
WantsConversionAnyFile(flag, path) == flag

WantsConversion(flag, path) == flag /\ EndsWithNote(path)

\* pdf_filepath = os.path.splitext(filepath)[0] + ".pdf"
PdfFilepath(path) ==
    [path EXCEPT !.comps[Len(path.comps)].ext = PdfExt]

\* os.makedirs(parent_dir, exist_ok=True): the directory and every ancestor.
\* (a variant that makes none)
NoMakedirs(ds, path) == ds

Makedirs(ds, path) ==
    ds \cup { [abs |-> TRUE, comps |-> SubSeq(path.comps, 1, k)] : k \in 1..Len(path.comps) }

\* --------------------------------------------------------- remote tree
\* A candidate tree: entry i hangs under entry par[i] (0 is the root), is
\* named comp[i]; entry mis (if any) reports a name field that is not the
\* last component of its uri.
RECURSIVE UriOf(_, _)
UriOf(t, i) == IF t.par[i] = 0 THEN <<t.comp[i]>>
               ELSE Append(UriOf(t, t.par[i]), t.comp[i])

WrongName(c) == IF c.ext = NoteExt THEN Comp(c.stem, PdfExt) ELSE Comp(c.stem, NoteExt)

ItemOf(t, i) ==
    [uri |-> UriOf(t, i),
     name |-> IF t.mis = i THEN WrongName(t.comp[i]) ELSE t.comp[i],
     isDirectory |-> t.comp[i] \in DirComps]

\* The candidates with N entries whose files take their names in fileComps;
\* misnamed tells whether an entry may be misnamed.
TreeShapes(N, fileComps, misnamed) ==
    { t \in [par : [1..N -> 0..N], comp : [1..N -> fileComps \cup DirComps],
             mis : IF misnamed THEN 0..N ELSE {0}] :
        /\ \A i \in 1..N : /\ t.par[i] < i
                           /\ t.par[i] # 0 => t.comp[t.par[i]] \in DirComps
        /\ \A i, j \in 1..N : (i # j /\ t.par[i] = t.par[j]) => t.comp[i] # t.comp[j]
        /\ t.mis # 0 => t.comp[t.mis] \in fileComps }

ChildrenOf(t, p) ==
    LET N == Len(t.par)
        IsChild(k) == t.par[k] = p
        idx == SelectSeq([k \in 1..N |-> k], IsChild)
    IN [k \in 1..Len(idx) |-> ItemOf(t, idx[k])]

\* The listing of every directory of the tree, by uri; <<>> is the root.
ListingOf(t) ==
    LET N == Len(t.par)
        dirsIdx == {i \in 1..N : t.comp[i] \in DirComps}
    IN [u \in {<<>>} \cup {UriOf(t, i) : i \in dirsIdx} |->
          IF u = <<>> THEN ChildrenOf(t, 0)
          ELSE ChildrenOf(t, CHOOSE i \in dirsIdx : UriOf(t, i) = u)]

TreesOver(fileComps, misnamed) ==
    UNION { {ListingOf(t) : t \in TreeShapes(N, fileComps, misnamed)} : N \in 0..MaxEntries }

Trees == TreesOver(FileComps, TRUE)


\* ------------------------------------------------------ listing pages
\* A line of a listing page, as read_directory sees it: whether
\* re.search(r"const json = '(.*?)'", line) matches and, if so, what
\* json.loads makes of the captured text:
\*   "object"  a JSON object with a fileList field,
\*   "nokey"   a non-empty JSON object without a fileList field,
\*   "falsy"   a JSON value Python takes for false ({}, [], 0, null, ""),
\*   "invalid" text that is not JSON.
OtherLine == [match |-> FALSE, kind |-> "text", fileList |-> <<>>]
JsonLine(kind, fl) == [match |-> TRUE, kind |-> kind, fileList |-> fl]

NoData == [match |-> FALSE, kind |-> "none", fileList |-> <<>>]

Reverse(s) == [k \in 1..Len(s) |-> s[Len(s) + 1 - k]]

\* A listing other than fl, for a second json line of the page.
Decoy(fl) == IF Len(fl) >= 2 THEN Reverse(fl) ELSE <<>>

SeqsUpTo(S, m) == UNION { [1..k -> S] : k \in 0..m }

\* The pages the device may serve for a directory whose listing is fl: the
\* listing itself is always the first json line that decodes to an object
\* with a fileList, when there is one.
PageLines(fl) ==
    { OtherLine, JsonLine("object", fl), JsonLine("object", Decoy(fl)),
      JsonLine("nokey", <<>>), JsonLine("falsy", <<>>), JsonLine("invalid", <<>>) }

Pages(fl) ==
    { h \in SeqsUpTo(PageLines(fl), MaxLines) :
        \A k \in 1..Len(h) :
            (h[k] = JsonLine("object", Decoy(fl)) /\ Decoy(fl) # fl)
                => \E j \in 1..(k - 1) : h[j].match }

\* What session.get(url) can come to: no connection, or a page.
Responses(fl) ==
    { [connected |-> FALSE, html |-> <<>>] }
        \cup { [connected |-> TRUE, html |-> h] : h \in Pages(fl) }

Returned(fl) == [err |-> "none", fileList |-> fl]
Raised(e) == [err |-> e, fileList |-> <<>>]

\* for line in html.splitlines(): ... if match: data = json.loads(...); break
\* (an earlier version of the loop without the break would keep the last match)
RECURSIVE ScanLinesNoBreak(_, _)
ScanLinesNoBreak(lines, data) ==
    IF lines = <<>> THEN data
    ELSE ScanLinesNoBreak(Tail(lines), IF Head(lines).match THEN Head(lines) ELSE data)

RECURSIVE ScanLinesFrom(_)
ScanLinesFrom(lines) ==
    IF lines = <<>> THEN NoData
    ELSE IF Head(lines).match THEN Head(lines)
    ELSE ScanLinesFrom(Tail(lines))

ScanLinesLast(lines) == ScanLinesNoBreak(lines, NoData)

ScanLines(lines) == ScanLinesFrom(lines)

\* read_directory(session, url), given what session.get(url) came to.
read_directory(resp) ==
    IF ~resp.connected THEN Raised("ClientConnectorError")
    ELSE LET data == ScanLines(resp.html)
         IN IF data.kind = "invalid" THEN Raised("JSONDecodeError")
            ELSE IF data.kind \in {"none", "falsy"} THEN Raised("RuntimeError")
            ELSE IF data.kind = "nokey" THEN Raised("KeyError")
            ELSE Returned(data.fileList)

\* -------------------------------------------------------------- state
VARIABLES
    listing,        \* the remote tree: directory uri -> its listing (fixed)
    output_dir,     \* <output-dir>
    should_convert, \* not --no-conversion
    pool,           \* number of worker tasks created
    cap,            \* initial value of the semaphore
    run,            \* which launch of the program this is
    proc,           \* the process: "running", or "exited" once the script ends
    mainPc,         \* where main / supernote_to_local stands
    q,              \* asyncio.Queue: the items put and not yet got
    unfinished,     \* asyncio.Queue's count of items put and not yet task_done
    sem,            \* the semaphore's value: permits available
    wpc,            \* worker -> where the worker task stands
    witem,          \* worker -> the item it got last
    wdest,          \* worker -> filepath of the file branch
    werr,           \* worker -> the exception that ended the task
    dirs,           \* local directories created by os.makedirs
    files,          \* local files: path -> contents
    filesBefore,    \* the local files when this launch started
    filesFirst,     \* the local files when the first launch ended
    nListing,       \* directory uri -> read_directory calls made for it
    nDownload,      \* file uri -> download_file calls made for it
    nConvert,       \* file uri -> convert_to_pdf calls made for it
    nDone,          \* uri -> task_done calls made for its item
    lastListing,    \* the last read_directory call: page served, outcome
    nFetched,       \* file uri -> download_file calls that returned
    mainErr,        \* the exception read_directory raised in supernote_to_local
    errorLog,       \* number of logger.error("Can't connect to supernote")
    hosts,          \* discover_supernote: the hosts to probe
    finished,       \* the probes that have ended, in the order they ended
    results,        \* probe -> what is_supernote_url returned (once ended)
    discPc,         \* where discover_supernote stands ("skipped": --url given)
    discOut         \* what discover_supernote returned or raised

vars == << listing, output_dir, should_convert, pool, cap, run, proc, mainPc, q,
           unfinished, sem, wpc, witem, wdest, werr, dirs, files, filesBefore,
           filesFirst, nListing, nDownload, nConvert, nDone, lastListing, nFetched,
           mainErr, errorLog, hosts, finished, results, discPc, discOut >>

discovery == << hosts, finished, results, discPc, discOut >>
\* what an engine run does not change: its arguments (root_url, found by
\* the discovery or given, among them) and the sizes of pool and semaphore
config == << listing, output_dir, should_convert, pool, cap, discovery >>
launch == << run, proc >>
mainLog == << mainErr, errorLog >>
queueVars == << q, unfinished >>
workerVars == << wpc, witem, wdest, werr >>
diskVars == << dirs, files >>
counters == << nListing, nDownload, nConvert, nDone, nFetched >>

\* ------------------------------------------------------------ helpers
RootUri == <<>>

NoItem == [uri |-> <<>>, name |-> Comp("", ""), isDirectory |-> FALSE]
NoPath == [abs |-> TRUE, comps |-> <<>>]

AllItems(tree) == UNION { {tree[u][k] : k \in 1..Len(tree[u])} : u \in DOMAIN tree }
FileItems(tree) == { it \in AllItems(tree) : ~it.isDirectory }
DirItems(tree) == { it \in AllItems(tree) : it.isDirectory }
AllUris(tree) == {RootUri} \cup { it.uri : it \in AllItems(tree) }

\* Contents: what the device serves for a uri, what wget leaves of a failed
\* fetch, what the converter makes of some contents, and local-only data.
RemoteContent(uri) == [kind |-> "remote", of |-> uri]
Truncated == [kind |-> "truncated", of |-> <<>>]
PdfOf(content) == [kind |-> "pdf", of |-> content.of]
LocalContent(tag) == [kind |-> "local", of |-> <<Comp(tag, "")>>]

\* Writing a file creates it or replaces its contents.
WriteFile(fs, path, content) ==
    [p \in DOMAIN fs \cup {path} |-> IF p = path THEN content ELSE fs[p]]

\* The output directory as first found: a file the device does not have,
\* and stale copies where x.note and x.pdf of the root go.
InitialFiles(dir) ==
    LET base == Abspath(dir)
    IN [p \in { PathJoin(base, Comp("keep", ".txt")),
                PathJoin(base, Comp("x", NoteExt)),
                PathJoin(base, Comp("x", PdfExt)) } |->
           IF p = PathJoin(base, Comp("keep", ".txt"))
           THEN LocalContent("keep") ELSE LocalContent("stale")]

ZeroOn(S) == [u \in S |-> 0]
Bump(f, u) == [f EXCEPT ![u] = @ + 1]

NoListing == [uri |-> RootUri, resp |-> [connected |-> FALSE, html |-> <<>>],
              got |-> Raised("not called")]

\* q.put(it) for each it of a listing, in order: the queue is unbounded, so
\* put never waits.
PutAll(queue, fl) == queue \o fl

\* q.task_done()
\* (variants: called twice for an item, or not at all)
TaskDoneTwice(u) == u - 2

TaskDoneNever(u) == u

TaskDone(u) == u - 1

\* await q.join() returns when the count of unfinished items is zero.
\* (variants: one that waits for the queue to be empty instead, one that
\* does not wait)
JoinReadyWhenEmpty == q = <<>>

JoinReadyAtOnce == TRUE

JoinReady == unfinished = 0

\* except aiohttp.client_exceptions.ClientConnectorError, in main
\* (a variant: except Exception)
CaughtAny(e) == TRUE

Caught(e) == e = "ClientConnectorError"

\* async with semaphore: entry waits for a permit, exit gives it back.
\* (a variant that never waits)
CanAcquireAlways == TRUE

CanAcquire == sem > 0

HoldsPermit(w) == wpc[w] \in {"download", "convert"}

\* the exit of the async with block: semaphore.release()
\* (a variant that keeps the permit)
ReleaseNothing(s) == s

Release(s) == s + 1

\* ---------------------------------------------------------- discovery
HostNames == {"h1", "h2"}
HostLists == SeqsUpTo(HostNames, MaxHosts)

\* f"http://{host}:{port}"
Endpoint(host) == [host |-> host, port |-> port]
NoEndpoint == [host |-> "", port |-> 0]

\* is_supernote_url: True when read_directory returns, False when it raises
\* (except Exception).
is_supernote_url(resp) == read_directory(resp).err = "none"

\* key=lambda it: it[1], compared as Python compares booleans: False < True.
KeyGreater(a, b) == a /\ ~b

\* max(enumerate(results), key=...): the items are taken in order and one
\* replaces the best so far only when its key is greater, so that of several
\* greatest items the first is kept.

RECURSIVE MaxFrom(_, _, _)
MaxFrom(res, k, best) ==
    IF k > Len(res) THEN best
    ELSE MaxFrom(res, k + 1, IF KeyGreater(res[k], res[best]) THEN k ELSE best)

DiscoveryReturned(url) == [err |-> "none", url |-> url]
DiscoveryRaised(e) == [err |-> e, url |-> NoEndpoint]
NoDiscovery == DiscoveryRaised("not called")

\* idx, result = max(enumerate(results), key=lambda it: it[1])
\* if result is False: raise RuntimeError("Supernote was not found on the network")
\* return f"http://{hosts[idx]}:{port}"
\* max() of an empty sequence raises ValueError.
discover_supernote(hs, res) ==
    IF res = <<>> THEN DiscoveryRaised("ValueError")
    ELSE LET idx == MaxFrom(res, 2, 1)
         IN IF res[idx] = FALSE THEN DiscoveryRaised("RuntimeError")
            ELSE DiscoveryReturned(Endpoint(hs[idx]))

\* --url was given: no discovery.
DiscoverySkipped ==
    /\ hosts = <<>>
    /\ finished = <<>>
    /\ results = <<>>
    /\ discPc = "skipped"
    /\ discOut = NoDiscovery

\* ----------------------------------------------------------- initial
EngineReset ==
    /\ mainPc = "start"
    /\ q = <<>>
    /\ unfinished = 0
    /\ sem = cap
    /\ wpc = [w \in Workers |-> "none"]
    /\ witem = [w \in Workers |-> NoItem]
    /\ wdest = [w \in Workers |-> NoPath]
    /\ werr = [w \in Workers |-> "none"]
    /\ nListing = ZeroOn({RootUri} \cup {it.uri : it \in DirItems(listing)})
    /\ nDownload = ZeroOn({it.uri : it \in FileItems(listing)})
    /\ nConvert = ZeroOn({it.uri : it \in FileItems(listing)})
    /\ nDone = ZeroOn({it.uri : it \in AllItems(listing)})
    /\ nFetched = ZeroOn({it.uri : it \in FileItems(listing)})
    /\ lastListing = NoListing
    /\ mainErr = "none"
    /\ errorLog = 0

InitWith(tree, dir, flag, p, c) ==
    /\ listing = tree
    /\ output_dir = dir
    /\ should_convert = flag
    /\ pool = p
    /\ cap = c
    /\ run = 1
    /\ proc = "running"
    /\ dirs = {}
    /\ files = InitialFiles(dir)
    /\ filesBefore = InitialFiles(dir)
    /\ filesFirst = InitialFiles(dir)
    /\ EngineReset
    /\ DiscoverySkipped

Init ==
    \E tree \in Trees, dir \in OutputDirs, flag \in BOOLEAN :
        InitWith(tree, dir, flag, n, n)

\* ------------------------------------------------ supernote_to_local
\* The pages that make read_directory return, and those that make it raise.
GoodResponses(fl) == { r \in Responses(fl) : read_directory(r).err = "none" }
BadResponses(fl) == { r \in Responses(fl) : read_directory(r).err # "none" }

\* lastListing is an observer's record of the last read_directory call; the
\* actions keep it only when asked to (rec), to keep the other
\* specifications small.
Listed(rec, uri, resp) ==
    IF rec THEN [uri |-> uri, resp |-> resp, got |-> read_directory(resp)]
    ELSE lastListing

\* for it in await read_directory(session, root_url): await q.put(it)
\* then the n worker tasks are created and main waits in q.join().
RootListed(rec) ==
    /\ mainPc = "start"
    /\ \E resp \in GoodResponses(listing[RootUri]) :
         LET fl == read_directory(resp).fileList
         IN /\ q' = PutAll(q, fl)
            /\ unfinished' = unfinished + Len(fl)
            /\ lastListing' = Listed(rec, RootUri, resp)
    /\ nListing' = Bump(nListing, RootUri)
    /\ wpc' = [w \in Workers |-> IF w <= pool THEN "get" ELSE "none"]
    /\ mainPc' = "join"
    /\ UNCHANGED << config, launch, sem, witem, wdest, werr, diskVars, filesBefore,
                    filesFirst, nDownload, nConvert, nDone, nFetched, mainLog >>

\* read_directory raises in supernote_to_local: main catches
\* ClientConnectorError, logs it and returns; anything else leaves main.
RootFailed(rec) ==
    /\ mainPc = "start"
    /\ \E resp \in BadResponses(listing[RootUri]) :
         /\ lastListing' = Listed(rec, RootUri, resp)
         /\ mainErr' = read_directory(resp).err
         /\ IF Caught(read_directory(resp).err)
            THEN mainPc' = "abandoned" /\ errorLog' = errorLog + 1
            ELSE mainPc' = "raised" /\ errorLog' = errorLog
    /\ nListing' = Bump(nListing, RootUri)
    /\ proc' = "exited"
    /\ filesFirst' = IF run = 1 THEN files ELSE filesFirst
    /\ UNCHANGED << config, run, queueVars, sem, workerVars, diskVars, filesBefore,
                    nDownload, nConvert, nDone, nFetched >>

\* await q.join() returns; for task in tasks: task.cancel(); main returns.
\* A cancelled task leaves its async with block, which gives the permit back.
Drained ==
    /\ mainPc = "join"
    /\ JoinReady
    /\ wpc' = [w \in Workers |->
                 IF wpc[w] \in {"none", "dead"} THEN wpc[w] ELSE "cancelled"]
    /\ sem' = sem + Cardinality({w \in Workers : HoldsPermit(w)})
    /\ mainPc' = "completed"
    /\ proc' = "exited"
    /\ filesFirst' = IF run = 1 THEN files ELSE filesFirst
    /\ UNCHANGED << config, run, queueVars, witem, wdest, werr, diskVars,
                    filesBefore, counters, lastListing, mainLog >>

\* ------------------------------------------------------------- worker
\* item = await q.get(); item_url, parent_dir; os.makedirs(parent_dir);
\* then the directory branch awaits the listing, the file branch the
\* semaphore.  The workers waiting in q.get() run the same code on the same
\* (no) local state, so which of them takes the item makes no difference to
\* what follows: the model lets the one with the least index take it.
Get(w) ==
    /\ wpc[w] = "get"
    /\ \A v \in Workers : wpc[v] = "get" => w <= v
    /\ q # <<>>
    /\ LET item == Head(q)
       IN /\ witem' = [witem EXCEPT ![w] = item]
          /\ dirs' = Makedirs(dirs, ParentDir(output_dir, item))
          /\ wpc' = [wpc EXCEPT ![w] = IF item.isDirectory THEN "listing" ELSE "acquire"]
    /\ q' = Tail(q)
    /\ UNCHANGED << config, launch, mainPc, unfinished, sem, wdest, werr, files,
                    filesBefore, filesFirst, counters, lastListing, mainLog >>

\* q.task_done(), and back to the top of the loop: the locals of the
\* iteration are dead.
EndOfIteration(w, unf) ==
    /\ unfinished' = TaskDone(unf)
    /\ nDone' = Bump(nDone, witem[w].uri)
    /\ wpc' = [wpc EXCEPT ![w] = "get"]
    /\ witem' = [witem EXCEPT ![w] = NoItem]
    /\ wdest' = [wdest EXCEPT ![w] = NoPath]

\* An exception leaves worker(): the task is over, q.task_done() was not
\* called for its item.
\* (a variant in which the loop catches the exception and goes on)
SwallowedInWorker(w, e) ==
    /\ wpc' = [wpc EXCEPT ![w] = "get"]
    /\ werr' = [werr EXCEPT ![w] = e]
    /\ witem' = [witem EXCEPT ![w] = NoItem]
    /\ wdest' = [wdest EXCEPT ![w] = NoPath]
    /\ UNCHANGED << unfinished, nDone >>

\* (a variant in which q.task_done() stands in a finally clause)
FinallyTaskDone(w, e) ==
    /\ wpc' = [wpc EXCEPT ![w] = "dead"]
    /\ werr' = [werr EXCEPT ![w] = e]
    /\ unfinished' = TaskDone(unfinished)
    /\ nDone' = Bump(nDone, witem[w].uri)
    /\ UNCHANGED << witem, wdest >>

EndOfTask(w, e) ==
    /\ wpc' = [wpc EXCEPT ![w] = "dead"]
    /\ werr' = [werr EXCEPT ![w] = e]
    /\ UNCHANGED << unfinished, nDone, witem, wdest >>

\* for it in await read_directory(session, item_url): await q.put(it)
\* q.task_done()
ListingDone(w, rec) ==
    /\ wpc[w] = "listing"
    /\ \E resp \in GoodResponses(listing[witem[w].uri]) :
         LET fl == read_directory(resp).fileList
         IN /\ q' = PutAll(q, fl)
            /\ EndOfIteration(w, unfinished + Len(fl))
            /\ lastListing' = Listed(rec, witem[w].uri, resp)
    /\ nListing' = Bump(nListing, witem[w].uri)
    /\ UNCHANGED << config, launch, mainPc, sem, werr, diskVars,
                    filesBefore, filesFirst, nDownload, nConvert, nFetched, mainLog >>

\* read_directory raises inside the worker: nothing catches it, the task
\* ends with the exception, before any put and before task_done.
ListingRaised(w, rec) ==
    /\ wpc[w] = "listing"
    /\ \E resp \in BadResponses(listing[witem[w].uri]) :
         /\ lastListing' = Listed(rec, witem[w].uri, resp)
         /\ EndOfTask(w, read_directory(resp).err)
    /\ nListing' = Bump(nListing, witem[w].uri)
    /\ UNCHANGED << config, launch, mainPc, q, sem, diskVars,
                    filesBefore, filesFirst, nDownload, nConvert, nFetched, mainLog >>

\* async with semaphore: filepath = ...; await download_file(item_url, filepath)
Acquire(w) ==
    /\ wpc[w] = "acquire"
    /\ CanAcquire
    /\ sem' = sem - 1
    /\ wdest' = [wdest EXCEPT ![w] = Filepath(output_dir, witem[w])]
    /\ nDownload' = Bump(nDownload, witem[w].uri)
    /\ wpc' = [wpc EXCEPT ![w] = "download"]
    /\ UNCHANGED << config, launch, mainPc, queueVars, witem, werr, diskVars,
                    filesBefore, filesFirst, nListing, nConvert, nDone, nFetched,
                    lastListing, mainLog >>

\* What follows the return of download_file: the conversion when
\* should_convert and filepath.endswith(".note"), else the end of the async
\* with block and q.task_done().
AfterDownload(w) ==
    IF WantsConversion(should_convert, wdest[w])
    THEN /\ wpc' = [wpc EXCEPT ![w] = "convert"]
         /\ nConvert' = Bump(nConvert, witem[w].uri)
         /\ UNCHANGED << sem, unfinished, nDone, witem, wdest >>
    ELSE /\ sem' = Release(sem)
         /\ EndOfIteration(w, unfinished)
         /\ UNCHANGED nConvert

\* wget exits with status 0, having written the file.
Downloaded(w) ==
    /\ wpc[w] = "download"
    /\ files' = WriteFile(files, wdest[w], RemoteContent(witem[w].uri))
    /\ nFetched' = Bump(nFetched, witem[w].uri)
    /\ AfterDownload(w)
    /\ UNCHANGED << config, launch, mainPc, q, werr, dirs, filesBefore,
                    filesFirst, nListing, nDownload, lastListing, mainLog >>

\* wget exits with another status, leaving the file it opened for -O cut
\* short; download_file does not look at the status.
\* (a variant in which download_file raises on such a status)
DownloadFailedRaises(w) ==
    /\ wpc[w] = "download"
    /\ files' = WriteFile(files, wdest[w], Truncated)
    /\ sem' = Release(sem)
    /\ wpc' = [wpc EXCEPT ![w] = "dead"]
    /\ werr' = [werr EXCEPT ![w] = "CalledProcessError"]
    /\ UNCHANGED << config, launch, mainPc, queueVars, witem, wdest, dirs,
                    filesBefore, filesFirst, counters, lastListing, mainLog >>

DownloadFailed(w) ==
    /\ wpc[w] = "download"
    /\ files' = WriteFile(files, wdest[w], Truncated)
    /\ nFetched' = Bump(nFetched, witem[w].uri)
    /\ AfterDownload(w)
    /\ UNCHANGED << config, launch, mainPc, q, werr, dirs, filesBefore,
                    filesFirst, nListing, nDownload, lastListing, mainLog >>

\* create_subprocess_exec raises (no wget to run): the exception leaves the
\* async with block, which gives the permit back, and ends the task.
DownloadRaised(w) ==
    /\ wpc[w] = "download"
    /\ sem' = Release(sem)
    /\ EndOfTask(w, "OSError")
    /\ UNCHANGED << config, launch, mainPc, q, diskVars, filesBefore, filesFirst,
                    nListing, nDownload, nConvert, nFetched, lastListing, mainLog >>

\* convert_to_pdf returns, having written the pdf of the notebook it loaded
\* from filepath; the async with block ends; q.task_done().
Converted(w) ==
    /\ wpc[w] = "convert"
    /\ wdest[w] \in DOMAIN files
    /\ files[wdest[w]].kind = "remote"
    /\ files' = WriteFile(files, PdfFilepath(wdest[w]), PdfOf(files[wdest[w]]))
    /\ sem' = Release(sem)
    /\ EndOfIteration(w, unfinished)
    /\ UNCHANGED << config, launch, mainPc, q, werr, dirs, filesBefore,
                    filesFirst, nListing, nDownload, nConvert, nFetched, lastListing,
                    mainLog >>

\* convert_to_pdf raises (the notebook does not load, the pdf cannot be
\* written): the permit is given back and the task ends.
ConvertRaised(w) ==
    /\ wpc[w] = "convert"
    /\ sem' = Release(sem)
    /\ EndOfTask(w, "ConversionError")
    /\ UNCHANGED << config, launch, mainPc, q, diskVars, filesBefore, filesFirst,
                    nListing, nDownload, nConvert, nFetched, lastListing, mainLog >>

\* ------------------------------------------------------------ program
\* asyncio.run(main(...)) has returned or raised and the process is over;
\* the program is launched again with the same arguments.
Relaunch ==
    /\ proc = "exited"
    /\ run < MaxRuns
    /\ run' = run + 1
    /\ proc' = "running"
    /\ filesBefore' = files
    /\ mainPc' = "start"
    /\ q' = <<>>
    /\ unfinished' = 0
    /\ sem' = cap
    /\ wpc' = [w \in Workers |-> "none"]
    /\ witem' = [w \in Workers |-> NoItem]
    /\ wdest' = [w \in Workers |-> NoPath]
    /\ werr' = [w \in Workers |-> "none"]
    /\ nListing' = ZeroOn(DOMAIN nListing)
    /\ nDownload' = ZeroOn(DOMAIN nDownload)
    /\ nConvert' = ZeroOn(DOMAIN nConvert)
    /\ nDone' = ZeroOn(DOMAIN nDone)
    /\ nFetched' = ZeroOn(DOMAIN nFetched)
    /\ lastListing' = NoListing
    /\ mainErr' = "none"
    /\ errorLog' = 0
    /\ UNCHANGED << config, diskVars, filesFirst >>

WorkerOK(w) ==
    Get(w) \/ ListingDone(w, FALSE) \/ Acquire(w) \/ Downloaded(w) \/ Converted(w)
WorkerFails(w) ==
    ListingRaised(w, FALSE) \/ DownloadFailed(w) \/ DownloadRaised(w) \/ ConvertRaised(w)

NextOK == RootListed(FALSE) \/ Drained \/ Relaunch \/ (\E w \in Workers : WorkerOK(w))

Next == NextOK \/ RootFailed(FALSE) \/ (\E w \in Workers : WorkerFails(w))

\* The runs of the program as written: n workers, n permits; listings,
\* downloads and conversions may fail.
Spec == Init /\ [][Next]_vars

\* The runs in which no listing, download or conversion fails.
SpecOK == Init /\ [][NextOK]_vars

\* The event loop runs every task that is ready, and (in these runs) every
\* request, download and conversion comes to an end.
EngineStep == RootListed(FALSE) \/ Drained \/ (\E w \in Workers : WorkerOK(w))

FairSpecOK == SpecOK /\ WF_vars(EngineStep)

\* The same runs, with the observer's record of every listing call kept.
NextPages ==
    \/ RootListed(TRUE) \/ RootFailed(TRUE) \/ Drained \/ Relaunch
    \/ \E w \in Workers :
          \/ Get(w) \/ ListingDone(w, TRUE) \/ ListingRaised(w, TRUE)
          \/ Acquire(w) \/ Downloaded(w) \/ DownloadFailed(w)
          \/ DownloadRaised(w) \/ Converted(w) \/ ConvertRaised(w)

AbsoluteOut == [abs |-> TRUE, comps |-> <<Comp("out", "")>>]

InitPages ==
    \E tree \in TreesOver(FileComps, FALSE) :
        InitWith(tree, AbsoluteOut, TRUE, n, n)

SpecPages == InitPages /\ [][NextPages]_vars

\* supernote_to_local with a pool and a semaphore of other sizes than n and
\* n: every pair up to MaxPool, and the program's own.
MaxPool == 3

InitGate ==
    \E tree \in TreesOver(MoreFileComps, FALSE),
       sizes \in ((1..MaxPool) \X (1..MaxPool)) \cup {<<n, n>>} :
        InitWith(tree, AbsoluteOut, TRUE, sizes[1], sizes[2])

SpecGate == InitGate /\ [][Next]_vars

\* ------------------------------------------------- discover_supernote
Pending(i) == \A k \in 1..Len(finished) : finished[k] # i

\* One of the probes gathered by asyncio.gather ends: is_supernote_url
\* returns for some host, whatever the others have done.
Probed(i) ==
    /\ discPc = "probing"
    /\ Pending(i)
    /\ \E resp \in Responses(<<>>) :
          results' = [results EXCEPT ![i] = is_supernote_url(resp)]
    /\ finished' = Append(finished, i)
    /\ UNCHANGED << listing, output_dir, should_convert, pool, cap, hosts, discPc,
                    discOut, launch, mainPc, queueVars, sem, workerVars, diskVars,
                    filesBefore, filesFirst, counters, lastListing, mainLog >>

\* await asyncio.gather(*tasks) returns once every probe has ended, with
\* the results in the order of the hosts; the rest of discover_supernote.
Gathered ==
    /\ discPc = "probing"
    /\ Len(finished) = Len(hosts)
    /\ discOut' = discover_supernote(hosts, results)
    /\ discPc' = IF discOut'.err = "none" THEN "returned" ELSE "raised"
    /\ UNCHANGED << listing, output_dir, should_convert, pool, cap, hosts, finished,
                    results, launch, mainPc, queueVars, sem, workerVars, diskVars,
                    filesBefore, filesFirst, counters, lastListing, mainLog >>

\* No --url: __main__ hands the hosts the scan found to discover_supernote,
\* before anything else.
InitDiscover ==
    /\ \E tree \in {ListingOf(t) : t \in TreeShapes(0, FileComps, FALSE)} :
          /\ listing = tree
          /\ output_dir = AbsoluteOut
          /\ should_convert = TRUE
          /\ pool = n
          /\ cap = n
          /\ run = 1
          /\ proc = "running"
          /\ dirs = {}
          /\ files = InitialFiles(AbsoluteOut)
          /\ filesBefore = InitialFiles(AbsoluteOut)
          /\ filesFirst = InitialFiles(AbsoluteOut)
          /\ EngineReset
    /\ hosts \in HostLists
    /\ finished = <<>>
    /\ results = [i \in 1..Len(hosts) |-> FALSE]
    /\ discPc = "probing"
    /\ discOut = NoDiscovery

NextDiscover == Gathered \/ (\E i \in 1..Len(hosts) : Probed(i))

SpecDiscover == InitDiscover /\ [][NextDiscover]_vars

\* ============================================================= claims
Front(sq) == SubSeq(sq, 1, Len(sq) - 1)
Last(sq) == sq[Len(sq)]

InQueue(it) == \E k \in 1..Len(q) : q[k] = it
HeldBy(w, it) == witem[w] = it
\* it was put in the queue at some point of this run
WasPut(it) == InQueue(it) \/ (\E w \in Workers : HeldBy(w, it)) \/ nDone[it.uri] > 0

Started(w) == w \in 1..pool

\* C1: the run is reported complete (q.join() has returned, the workers are
\* cancelled) only with the queue empty and no worker holding an item it got
\* and did not mark done; and a directory item is marked done only after all
\* its children were put in the queue.
C1_CompleteOnlyWhenDrained ==
    /\ mainPc = "completed" => (q = <<>> /\ \A w \in Workers : witem[w] = NoItem)
    /\ \A d \in DirItems(listing) :
          nDone[d.uri] > 0 =>
              \A k \in 1..Len(listing[d.uri]) : WasPut(listing[d.uri][k])

C1_Witness ==
    /\ mainPc = "completed"
    /\ \E d \in DirItems(listing) : Len(listing[d.uri]) >= 2 /\ nDone[d.uri] = 1

\* C2: in a completed run without failures every item was taken once:
\* download_file was called exactly once for every file entry, and
\* read_directory exactly once for every directory entry and once for the
\* root; every item was marked done exactly once.
C2_EachItemOnce ==
    mainPc = "completed" =>
        /\ nListing[RootUri] = 1
        /\ \A f \in FileItems(listing) : nDownload[f.uri] = 1 /\ nDone[f.uri] = 1
        /\ \A d \in DirItems(listing) : nListing[d.uri] = 1 /\ nDone[d.uri] = 1

C2_Witness ==
    /\ mainPc = "completed"
    /\ Cardinality(FileItems(listing)) >= 2
    /\ \E f \in FileItems(listing) : Len(f.uri) >= 2 /\ nDownload[f.uri] = 1

\* C3: at no time are more download_file calls in flight than the semaphore
\* has permits, whatever the number of workers.
Downloading == { w \in Workers : wpc[w] = "download" }

C3_GateBound == Cardinality(Downloading) <= cap

\* one permit, three workers, three files taken: one download, two waiting
C3_Witness ==
    /\ cap = 1
    /\ pool = 3
    /\ Cardinality(Downloading) = 1
    /\ Cardinality({ w \in Workers : wpc[w] = "acquire" }) = 2

\* C4: when nothing fails or hangs, every run that starts comes to its end:
\* every item, also those put by the workers, is marked done, q.join()
\* returns and every worker task is cancelled.
RunCompleted ==
    /\ mainPc = "completed"
    /\ q = <<>>
    /\ \A it \in AllItems(listing) : nDone[it.uri] = 1
    /\ \A w \in Workers : Started(w) => wpc[w] = "cancelled"

C4_RunCompletes == (mainPc = "start") ~> RunCompleted

C4_Witness ==
    /\ RunCompleted
    /\ \E d \in DirItems(listing) : \E k \in 1..Len(listing[d.uri]) :
          listing[d.uri][k].isDirectory

\* C5 as stated: the path handed to download_file is output_dir + uri (taken
\* as an absolute path), whatever the name field.
MappedPath(it) == Abspath(StrConcat(output_dir, it.uri))

C5_DestIsOutputDirPlusUri ==
    \A w \in Workers :
        wpc[w] \in {"download", "convert"} => wdest[w] = MappedPath(witem[w])

\* C5 as amended: the path handed to download_file is the directory of
\* output_dir + uri (made absolute), joined with the name field; it is
\* output_dir + uri exactly when the name field is the last component of
\* the uri.
C5_DestIsParentJoinName ==
    \A w \in Workers :
        wpc[w] \in {"download", "convert"} =>
            /\ wdest[w].abs
            /\ wdest[w].comps = Append(Front(MappedPath(witem[w]).comps), witem[w].name)
            /\ (wdest[w] = MappedPath(witem[w])) <=> (witem[w].name = Last(witem[w].uri))

C5_Witness ==
    \E w \in Workers :
        /\ wpc[w] = "download"
        /\ witem[w].name # Last(witem[w].uri)
        /\ Len(witem[w].uri) >= 2
        /\ ~output_dir.abs

\* C6: (for entries named as their uri ends) a run deletes no local file,
\* writes only where the remote files map to and where their conversions go,
\* and a second run on the same tree and directory leaves the files as the
\* first run left them.
WellNamed == \A f \in FileItems(listing) : f.name = Last(f.uri)
MappedPaths == { MappedPath(f) : f \in FileItems(listing) }
DerivedPaths == { PdfFilepath(p) : p \in { m \in MappedPaths : EndsWithNote(m) } }
Written == { p \in DOMAIN files : p \notin DOMAIN filesBefore \/ files[p] # filesBefore[p] }

C6_NothingDeleted == WellNamed => DOMAIN filesBefore \subseteq DOMAIN files
C6_WritesOnlyMapped == WellNamed => Written \subseteq (MappedPaths \cup DerivedPaths)
C6_SecondRunSame == (WellNamed /\ run >= 2 /\ mainPc = "completed") => files = filesFirst

C6_FrameAndIdempotence == C6_NothingDeleted /\ C6_WritesOnlyMapped /\ C6_SecondRunSame

\* C7: convert_to_pdf is called for a file exactly when should_convert is set
\* and the downloaded file's name ends in .note, and only once download_file
\* has returned for it; without should_convert no pdf is written; when the
\* conversion raises, the downloaded file is still there.
C7_ConversionRule ==
    /\ \A f \in FileItems(listing) :
          /\ nConvert[f.uri] <= nFetched[f.uri]
          /\ nConvert[f.uri] = IF should_convert /\ f.name.ext = NoteExt
                               THEN nFetched[f.uri] ELSE 0
    /\ \A w \in Workers : wpc[w] = "convert" => nFetched[witem[w].uri] = 1
    /\ ~should_convert => \A p \in DOMAIN files : files[p].kind # "pdf"
    /\ \A w \in Workers :
          werr[w] = "ConversionError" =>
              /\ wdest[w] \in DOMAIN files
              /\ files[wdest[w]].kind \in {"remote", "truncated"}

\* one conversion raised, its download still there; another was made
C7_Witness ==
    /\ should_convert
    /\ \E w \in Workers :
          werr[w] = "ConversionError" /\ files[wdest[w]].kind = "remote"
    /\ \E f \in FileItems(listing) :
          /\ nConvert[f.uri] = 1
          /\ nDone[f.uri] = 1
          /\ PdfFilepath(Filepath(output_dir, f)) \in DOMAIN files
          /\ files[PdfFilepath(Filepath(output_dir, f))].kind = "pdf"

\* C8: the program keeps syncing: when a run has finished, completed or
\* abandoned for want of a connection, the program is still running, to
\* start the next run.
C8_KeepsSyncing == mainPc \in {"completed", "abandoned"} => proc = "running"

\* C9: a ClientConnectorError of the root listing is caught in main and
\* logged, and main returns having started no worker, queued no item and
\* called neither download_file nor convert_to_pdf; any other exception of
\* the root listing leaves main, with nothing logged and as little done.
NoWorkDone ==
    /\ q = <<>>
    /\ unfinished = 0
    /\ \A w \in Workers : wpc[w] = "none"
    /\ \A f \in FileItems(listing) : nDownload[f.uri] = 0 /\ nConvert[f.uri] = 0
    /\ files = filesBefore

C9_RootFailure ==
    /\ mainErr = "ClientConnectorError" =>
          mainPc = "abandoned" /\ errorLog = 1 /\ NoWorkDone
    /\ mainErr \notin {"none", "ClientConnectorError"} =>
          mainPc = "raised" /\ errorLog = 0 /\ NoWorkDone
    /\ mainPc \in {"abandoned", "raised"} => mainErr # "none"

C9_Witness ==
    /\ mainErr = "ClientConnectorError"
    /\ mainPc = "abandoned"
    /\ listing[RootUri] # <<>>

\* C10: a read_directory call returns the fileList of the first line of the
\* page that matches, in the page's order, and these are the items put in the
\* queue; a page with no matching line makes it raise the parse error, and
\* a call that raises puts nothing in the queue.
MatchingLines(html) == { k \in 1..Len(html) : html[k].match }
FirstMatching(html) ==
    html[CHOOSE k \in MatchingLines(html) : \A j \in MatchingLines(html) : k <= j]

ListingReturns == run' = run /\ nListing' # nListing

C10_Step ==
    (ListingReturns /\ lastListing'.resp.connected) =>
        LET html == lastListing'.resp.html
            got == lastListing'.got
        IN /\ MatchingLines(html) = {} =>
                 got = Raised("RuntimeError")
           /\ (MatchingLines(html) # {} /\ FirstMatching(html).kind = "object") =>
                 /\ got = Returned(FirstMatching(html).fileList)
                 /\ q' = q \o FirstMatching(html).fileList
           /\ got.err # "none" => (q' = q /\ unfinished' = unfinished)

C10_FirstMatchWins == [][C10_Step]_vars

C10_Witness ==
    /\ mainPc = "join"
    /\ lastListing.uri = RootUri
    /\ lastListing.got = Returned(q)
    /\ Len(q) >= 2
    /\ \E k \in 2..Len(lastListing.resp.html) :
          lastListing.resp.html[k] = JsonLine("object", Reverse(q))

\* C11: discover_supernote, for any list of hosts (the empty one too) and
\* any outcomes of the probes, in whatever order they end, returns the
\* endpoint of the first host of the list whose probe succeeded, and raises
\* RuntimeError("Supernote was not found on the network") when none did.
Succeeded == { i \in 1..Len(hosts) : results[i] }
FirstSucceeded == CHOOSE i \in Succeeded : \A j \in Succeeded : i <= j

C11_FirstResponderOrNotFound ==
    discPc \in {"returned", "raised"} =>
        IF Succeeded # {}
        THEN discOut = DiscoveryReturned(Endpoint(hosts[FirstSucceeded]))
        ELSE discOut = DiscoveryRaised("RuntimeError")

\* the same for the lists that are not empty
DiscoveryOfSomeHosts == hosts # <<>> => C11_FirstResponderOrNotFound

\* C12: every item a worker got is marked done exactly once, on the
\* directory branch and on the file branch, and not before its processing
\* is over; also an item whose listing, download or conversion raised is
\* marked done.
Processing(w) == wpc[w] \in {"listing", "acquire", "download", "convert"}

C12_MarkedDoneWhateverHappens ==
    /\ \A it \in AllItems(listing) : nDone[it.uri] <= 1
    /\ \A w \in Workers : Processing(w) => nDone[witem[w].uri] = 0
    /\ \A w \in Workers : wpc[w] = "get" => witem[w] = NoItem
    /\ \A w \in Workers : werr[w] # "none" => nDone[witem[w].uri] = 1

\* C13: the count of unfinished items is never negative and is the number
\* of items in the queue plus the number of items a worker got and did not
\* mark done; it is the number of items put (those of the root listing and
\* the children of every directory expanded) less the number of task_done
\* calls, of which there are never more than items put.
RECURSIVE SumOver(_, _)
SumOver(f, S) ==
    IF S = {} THEN 0
    ELSE LET u == CHOOSE x \in S : TRUE IN f[u] + SumOver(f, S \ {u})

Undone == { w \in Workers : witem[w] # NoItem }
MarkedDone == SumOver(nDone, DOMAIN nDone)
Expanded == { d \in DirItems(listing) : nDone[d.uri] > 0 }
Enqueued ==
    (IF mainPc \in {"join", "completed"} THEN Len(listing[RootUri]) ELSE 0)
        + SumOver([d \in Expanded |-> Len(listing[d.uri])], Expanded)

C13_OutstandingCount ==
    /\ unfinished >= 0
    /\ unfinished = Len(q) + Cardinality(Undone)
    /\ unfinished = Enqueued - MarkedDone
    /\ MarkedDone <= Enqueued

C13_Witness ==
    /\ unfinished = 2
    /\ Len(q) = 1
    /\ Cardinality(Undone) = 1
    /\ \E d \in Expanded : Len(listing[d.uri]) = 2
    /\ MarkedDone = 1

\* C14: when q.join() is due to return (the count has come to zero) and
\* when the tasks are cancelled, every worker task still alive waits in
\* q.get() on the empty queue: the workers that are cancelled hold no item,
\* are in no listing, download or conversion, and no permit is out.
Idle(w) == witem[w] = NoItem /\ wdest[w] = NoPath

C14_CancelledWhileIdle ==
    /\ (mainPc = "join" /\ unfinished = 0) =>
          /\ q = <<>>
          /\ sem = cap
          /\ \A w \in Workers : Started(w) => (wpc[w] = "get" /\ Idle(w))
    /\ mainPc = "completed" =>
          /\ q = <<>>
          /\ sem = cap
          /\ \A w \in Workers : Started(w) => (wpc[w] = "cancelled" /\ Idle(w))

C14_Witness ==
    /\ mainPc = "completed"
    /\ \A w \in Workers : wpc[w] = "cancelled"
    /\ \E f \in FileItems(listing) : nConvert[f.uri] = 1 /\ nDone[f.uri] = 1
    /\ \E d \in DirItems(listing) : Len(listing[d.uri]) >= 1 /\ nDone[d.uri] = 1

\* C15: a worker holds a permit only inside the download and conversion of
\* a file item: a worker expanding a directory holds none and no download
\* is made for a directory; the permit is given back when the step is left,
\* by return, by an exception or by cancellation, so that the permits held
\* and the permits available always add up to the semaphore's size.
InGatedStep(w) == wpc[w] \in {"download", "convert"}

C15_PermitsAccountedFor ==
    /\ sem >= 0
    /\ sem + Cardinality({ w \in Workers : InGatedStep(w) }) = cap
    /\ \A w \in Workers : InGatedStep(w) => ~witem[w].isDirectory
    /\ \A w \in Workers : wpc[w] = "listing" => witem[w].isDirectory
    /\ \A d \in DirItems(listing) : d.uri \notin DOMAIN nDownload

\* a download raised, a conversion raised, a directory is being expanded
\* and a download is under way: one permit is out
C15_Witness ==
    /\ \E w \in Workers : werr[w] = "OSError"
    /\ \E w \in Workers : wpc[w] = "listing"
    /\ \E w \in Workers : wpc[w] = "download"
    /\ sem = cap - 1

\* C16: whenever download_file is called for a file item, the directory of
\* its destination and every ancestor of it have been made, whichever
\* worker took the item and whatever was done of the other entries of its
\* directory; making a directory that is there already changes nothing.
Ancestors(path) ==
    { [abs |-> TRUE, comps |-> SubSeq(path.comps, 1, k)] : k \in 1..(Len(path.comps) - 1) }

C16_ParentMadeBeforeDownload ==
    /\ \A w \in Workers : wpc[w] \in {"download", "convert"} =>
          Ancestors(wdest[w]) \subseteq dirs
    /\ \A p \in dirs : Makedirs(dirs, p) = dirs

\* a file of a directory is being downloaded, by another worker than the
\* first, into a relative output directory, while a file of the root is
C16_Witness ==
    \E w, v \in Workers :
        /\ w > 1
        /\ wpc[w] = "download"
        /\ Len(witem[w].uri) = 2
        /\ wpc[v] = "download"
        /\ Len(witem[v].uri) = 1
        /\ ~output_dir.abs
        /\ Cardinality(dirs) = 3

\* C17: an exception raised while a worker processes an item ends that
\* worker's task and no other: the item is not put back, not marked done,
\* the children of a directory whose listing failed are never put, and the
\* other workers, one fewer, go on taking the items of the queue.
Dead == { w \in Workers : wpc[w] = "dead" }
Alive == { w \in Workers : wpc[w] \in {"get", "listing", "acquire", "download", "convert"} }
Untouched(it) ==
    /\ ~InQueue(it)
    /\ \A v \in Workers : ~HeldBy(v, it)
    /\ nDone[it.uri] = 0

C17_FailureEndsOneWorker ==
    /\ \A w \in Workers : werr[w] # "none" <=> w \in Dead
    /\ \A w \in Dead :
          /\ witem[w] # NoItem
          /\ ~InQueue(witem[w])
          /\ \A v \in Workers \ {w} : ~HeldBy(v, witem[w])
          /\ nDone[witem[w].uri] = 0
          /\ witem[w].isDirectory =>
                \A k \in 1..Len(listing[witem[w].uri]) :
                    Untouched(listing[witem[w].uri][k])
    /\ mainPc = "join" => Cardinality(Alive) = pool - Cardinality(Dead)
    /\ (mainPc = "join" /\ q # <<>> /\ \E w \in Alive : wpc[w] = "get") =>
          ENABLED (\E w \in Workers : Get(w))

\* the worker that took the directory died of its listing; the file queued
\* behind it was taken by another worker and is done
C17_Witness ==
    /\ werr[1] = "RuntimeError"
    /\ witem[1].isDirectory
    /\ Len(listing[witem[1].uri]) >= 1
    /\ \E f \in FileItems(listing) : nDone[f.uri] = 1
    /\ wpc[2] = "get"
    /\ Cardinality(Dead) = 1

\* C18: a run is reported complete only when no worker raised: once a
\* worker has raised, its item is never marked done, the count stays above
\* zero, q.join() does not return, no worker is cancelled, and
\* supernote_to_local neither returns nor raises, from then on.
SomeWorkerRaised == \E w \in Workers : werr[w] # "none"

C18_FailureNeverCompletes ==
    /\ mainPc = "completed" =>
          /\ ~SomeWorkerRaised
          /\ \A it \in AllItems(listing) : nDone[it.uri] = 1
    /\ SomeWorkerRaised =>
          /\ mainPc = "join"
          /\ proc = "running"
          /\ mainErr = "none"
          /\ unfinished >= 1
          /\ \A w \in Workers : werr[w] # "none" => nDone[witem[w].uri] = 0
          /\ \A w \in Workers : wpc[w] # "cancelled"
          /\ ~ENABLED (Drained \/ Relaunch)

\* the run is stuck: one worker died, everything else is done, the others
\* wait in q.get() for ever and main in q.join()
C18_Witness ==
    /\ Cardinality(Dead) = 1
    /\ unfinished = 1
    /\ q = <<>>
    /\ \A w \in Workers \ Dead : wpc[w] = "get"
    /\ MarkedDone = 2
    /\ mainPc = "join"

\* C19: with as many permits as workers, a worker that comes to the
\* semaphore always finds a permit: it never waits there, and the downloads
\* in flight are bounded by the number of workers.
C19_AcquireNeverWaits ==
    pool = cap =>
        /\ \A w \in Workers : wpc[w] = "acquire" => sem > 0
        /\ Cardinality(Downloading) <= pool

\* two workers, two permits, three files: one download under way, the
\* other worker at the semaphore, a file still queued
C19_Witness ==
    /\ pool = 2
    /\ cap = 2
    /\ wpc[1] = "download"
    /\ wpc[2] = "acquire"
    /\ sem = 1
    /\ q # <<>>

\* C20: the engine does not see how the fetch ended.  When wget has run and
\* exited unsuccessfully (leaving a file cut short), download_file returns
\* as after a success: nothing is raised, the download counts as made, the
\* conversion is started when should_convert is set and the file is a
\* .note, and otherwise the permit is given back and the item marked done.
FetchFailed(w) ==
    /\ run' = run
    /\ wpc[w] = "download"
    /\ wpc'[w] # "download"
    /\ werr'[w] # "OSError"
    /\ wdest[w] \in DOMAIN files'
    /\ files'[wdest[w]] = Truncated

C20_Step ==
    \A w \in Workers :
        FetchFailed(w) =>
            /\ werr'[w] = "none"
            /\ nFetched' = Bump(nFetched, witem[w].uri)
            /\ IF should_convert /\ EndsWithNote(wdest[w])
               THEN /\ wpc'[w] = "convert"
                    /\ nConvert' = Bump(nConvert, witem[w].uri)
                    /\ sem' = sem
                    /\ unfinished' = unfinished
               ELSE /\ wpc'[w] = "get"
                    /\ nConvert' = nConvert
                    /\ sem' = sem + 1
                    /\ nDone' = Bump(nDone, witem[w].uri)
                    /\ unfinished' = unfinished - 1

C20_FetchOutcomeIgnored == [][C20_Step]_vars

\* a run is complete, every item marked done, with a file cut short where
\* a download went; and a .note of the run was converted
C20_Witness ==
    /\ mainPc = "completed"
    /\ \E f \in FileItems(listing) :
          /\ Filepath(output_dir, f) \in DOMAIN files
          /\ files[Filepath(output_dir, f)] = Truncated
          /\ nFetched[f.uri] = 1
          /\ nDone[f.uri] = 1
    /\ \E f \in FileItems(listing) : nConvert[f.uri] = 1
    /\ run = 1

=============================================================================
